---------------------------- MODULE Spec2Model ----------------------------
(***************************************************************************)
(* Model of tensorflow/lite/delegates/gpu/cl/kernels/elementwise.cc: the   *)
(* code-fragment renderers, the three elementwise operation variants,      *)
(* their constructors, factories and move operations, and                  *)
(* ElementwiseTwoInput::SetArgs.                                           *)
(*                                                                         *)
(* A C++ string is a TLA+ string; a template is a sequence of lines, each  *)
(* a sequence of tokens in which "$0" and "$1" are the placeholders of     *)
(* absl::Substitute; a rendered fragment (code_) is the sequence of its    *)
(* lines, each line one string ending in a newline.                        *)
(***************************************************************************)
EXTENDS Integers, Sequences, FiniteSets, TLC

VARIABLES ops, device, linkArgs, last

vars == <<ops, device, linkArgs, last>>

---------------------------------------------------------------------------
(* Bounds of the model.                                                    *)

\* number of object slots of the lifecycle specification
NumSlots == 2
\* largest extent of an axis of a shape given to a factory
MaxDim == 2
\* largest link index an instance is given
MaxLink == 1
\* device tensors that can be allocated in one behaviour
MaxTensors == 2
\* runtime tensor handles the framework supplies as source operands
NumHandles == 2
\* largest index the framework sets in the list of source operands
MaxSrcIndex == 2

---------------------------------------------------------------------------
(* Input domains.                                                          *)

Precisions == {"F32", "F16", "F32_F16"}

UnaryOps == {"ABS", "COS", "EXP", "HARD_SWISH", "LOG", "RSQRT", "SIGMOID",
             "SIN", "SQRT", "SQUARE", "TANH"}

BinaryOps == {"ADD", "DIV", "MAXIMUM", "MINIMUM", "MUL", "POW",
              "SQUARED_DIFF", "SUB"}

\* identifiers of the enumeration that neither switch names
OtherOps == {"CONCAT", "RELU"}

OperationType == UnaryOps \cup BinaryOps \cup OtherOps

Dims == 1..MaxDim

LinkIndexes == 0..MaxLink

\* BroadcastSettings
BroadcastSettings == [width : BOOLEAN, height : BOOLEAN, channels : BOOLEAN]

NoBroadcast == [width |-> FALSE, height |-> FALSE, channels |-> FALSE]

\* TensorDescriptor: where it comes from, and its "BatchedWidth" state variable
Desc(id) == [id |-> id, batched |-> FALSE]

NoDesc == Desc("")

\* what a read past the end of definition.src_tensors may yield
GarbageDescs == {Desc("garbage")}

\* OperationDef: precision, src_tensors, and the answer of IsBatchSupported()
SrcTensorLists == {<<>>, <<Desc("src0")>>, <<Desc("src0"), Desc("src1")>>}

Definitions == [precision : Precisions, src_tensors : SrcTensorLists,
                batch : BOOLEAN]

NoDef == [precision |-> "F32", src_tensors |-> <<>>, batch |-> FALSE]

\* scalar parameters, in units of 1/2: 5 is 2.5, 4097 is 2048.5, 4099 is 2049.5
ScalarValues == {5, 4097, 4099}

\* a device tensor: its identity and its BHWC shape
NoTensor == [id |-> 0, shape |-> <<0, 0, 0, 0>>]

---------------------------------------------------------------------------
(* Strings and templates.                                                  *)

RECURSIVE StrCat(_)
StrCat(parts) ==
    IF parts = <<>> THEN "" ELSE Head(parts) \o StrCat(Tail(parts))

\* absl::Substitute on one line of a template
SubstituteLine(line, a0, a1) ==
    StrCat([j \in 1..Len(line) |->
              IF line[j] = "$0" THEN a0
              ELSE IF line[j] = "$1" THEN a1
              ELSE line[j]])

Substitute(tmpl, a0, a1) ==
    [i \in 1..Len(tmpl) |-> SubstituteLine(tmpl[i], a0, a1)]

UnknownOperation == <<"Unknown operation type;\n">>

SigmoidLane(lane) ==
    <<"$0", ".", lane, " = convert_half(native_recip(1.0f + ",
      "native_exp(convert_float(-", "$0", ".", lane, "))));\n">>

\* SIGMOID with the lanes computed only under F16 (the mixed mode takes the
\* vector form)
SigmoidTemplate_F16Only(precision) ==
    IF precision = "F16"
    THEN <<SigmoidLane("x"), SigmoidLane("y"), SigmoidLane("z"),
           SigmoidLane("w")>>
    ELSE << <<"$0", " = (FLT4)(1.0f) / ((FLT4)(1.0f) + exp(-(", "$0",
              ")));\n">> >>

SigmoidTemplate(precision) ==
    IF precision # "F32"
    THEN <<SigmoidLane("x"), SigmoidLane("y"), SigmoidLane("z"),
           SigmoidLane("w")>>
    ELSE << <<"$0", " = (FLT4)(1.0f) / ((FLT4)(1.0f) + exp(-(", "$0",
              ")));\n">> >>

OneInputTemplate(op_type, precision) ==
    CASE op_type = "ABS" -> << <<"$0", " = fabs(", "$0", ");\n">> >>
      [] op_type = "COS" -> << <<"$0", " = cos(", "$0", ");\n">> >>
      [] op_type = "EXP" -> << <<"$0", " = exp(", "$0", ");\n">> >>
      [] op_type = "HARD_SWISH" ->
           << <<"$0", " *= clamp(", "$0",
                " * (FLT)(0.16666667f) + (FLT)(0.5f), (FLT4)(0.0f), ",
                "(FLT4)(1.0f));\n">> >>
      [] op_type = "LOG" -> << <<"$0", " = log(", "$0", ");\n">> >>
      [] op_type = "RSQRT" ->
           << <<"$0", " = (FLT4)(1.0f) / sqrt(", "$0", ");\n">> >>
      [] op_type = "SIGMOID" -> SigmoidTemplate(precision)
      [] op_type = "SIN" -> << <<"$0", " = sin(", "$0", ");\n">> >>
      [] op_type = "SQRT" -> << <<"$0", " = sqrt(", "$0", ");\n">> >>
      [] op_type = "SQUARE" -> << <<"$0", " *= ", "$0", ";\n">> >>
      [] op_type = "TANH" -> << <<"$0", " = tanh(", "$0", ");\n">> >>

GetOneInputCode(op_type, precision, input0) ==
    IF op_type \in {"ABS", "COS", "EXP", "HARD_SWISH", "LOG", "RSQRT",
                    "SIGMOID", "SIN", "SQRT", "SQUARE", "TANH"}
    THEN Substitute(OneInputTemplate(op_type, precision), input0, "")
    ELSE UnknownOperation

TwoInputTemplate(op_type) ==
    CASE op_type = "ADD" -> << <<"$0", " += ", "$1", ";\n">> >>
      [] op_type = "DIV" -> << <<"$0", " /= ", "$1", ";\n">> >>
      [] op_type = "MAXIMUM" ->
           << <<"$0", " = max(", "$0", ", ", "$1", ");\n">> >>
      [] op_type = "MINIMUM" ->
           << <<"$0", " = min(", "$0", ", ", "$1", ");\n">> >>
      [] op_type = "MUL" -> << <<"$0", " *= ", "$1", ";\n">> >>
      [] op_type = "POW" ->
           << <<"$0", " = pow(", "$0", ", ", "$1", ");\n">> >>
      [] op_type = "SQUARED_DIFF" ->
           << <<"$0", " -= ", "$1", ";\n">>, <<"$0", " *= ", "$0", ";\n">> >>
      [] op_type = "SUB" -> << <<"$0", " -= ", "$1", ";\n">> >>

\* the switch without its default branch: an identifier it does not name
\* leaves the result empty
GetTwoInputCode_NoDefault(op_type, input0, input1) ==
    IF op_type \in {"ADD", "DIV", "MAXIMUM", "MINIMUM", "MUL", "POW",
                    "SQUARED_DIFF", "SUB"}
    THEN Substitute(TwoInputTemplate(op_type), input0, input1)
    ELSE <<>>

GetTwoInputCode(op_type, input0, input1) ==
    IF op_type \in {"ADD", "DIV", "MAXIMUM", "MINIMUM", "MUL", "POW",
                    "SQUARED_DIFF", "SUB"}
    THEN Substitute(TwoInputTemplate(op_type), input0, input1)
    ELSE UnknownOperation

---------------------------------------------------------------------------
(* Scalars.                                                                *)

RECURSIVE HalfUlp(_, _)
HalfUlp(n, p) == IF n < 2048 * p THEN p ELSE HalfUlp(n, 2 * p)

\* half(scalar_parameter): the nearest value with an 11-bit significand, ties
\* to even (n >= 0 in units of 1/2, below the largest finite half)
half(n) ==
    LET p == HalfUlp(n, 1)
        q == n \div p
        r == n % p
    IN  IF 2 * r > p \/ (2 * r = p /\ q % 2 = 1) THEN (q + 1) * p ELSE q * p

---------------------------------------------------------------------------
(* Argument bindings (args_).                                              *)

Binding(name, kind, scalar, desc, tensor) ==
    [name |-> name, kind |-> kind, scalar |-> scalar, desc |-> desc,
     tensor |-> tensor]

AddFloat(args, name, value) ==
    Append(args, Binding(name, "float", value, NoDesc, NoTensor))

AddHalf(args, name, value) ==
    Append(args, Binding(name, "half", value, NoDesc, NoTensor))

AddObjectRef(args, name, desc) ==
    Append(args, Binding(name, "object_ref", 0, desc, NoTensor))

AddObject(args, name, tensor, desc) ==
    Append(args, Binding(name, "object", 0, desc, tensor))

\* the device tensors a list of bindings owns
OwnedTensors(args) ==
    {args[i].tensor.id : i \in {j \in 1..Len(args) : args[j].kind = "object"}}

---------------------------------------------------------------------------
(* Operation instances.                                                    *)

\* link_index_ as the constructors leave it: none of them assigns it
Unset == -1

\* a slot that holds no object
None ==
    [variant |-> "none", code |-> <<>>, args |-> <<>>, op_type |-> "",
     broadcast |-> NoBroadcast, link_index |-> Unset, src |-> <<>>]

ElementwiseOneInput(definition, op_type) ==
    [None EXCEPT
       !.variant = "one",
       !.op_type = op_type,
       !.code = GetOneInputCode(op_type, definition.precision,
                                "in_out_value")]

ElementwiseOneRuntimeOneScalar(definition, op_type, scalar_parameter, scalar_precision) ==
    [None EXCEPT
       !.variant = "scalar",
       !.op_type = op_type,
       !.args = IF definition.precision = "F32"
                THEN AddFloat(<<>>, "scalar", scalar_parameter)
                ELSE AddHalf(<<>>, "scalar", half(scalar_parameter)),
       !.code = GetTwoInputCode(op_type, "in_out_value", "args.scalar")]

\* the replication appended after the binary statements
TwoInputCode_ReplicateLast(op_type, broadcast) ==
    LET x_coord == IF broadcast.width THEN "0" ELSE "X_COORD"
        y_coord == IF broadcast.height THEN "0" ELSE "Y_COORD"
        s_coord == IF broadcast.channels THEN "0" ELSE "S_COORD"
        read == <<StrCat(<<"FLT4 second_val = args.second_tensor.Read(",
                           x_coord, ", ", y_coord, ", ", s_coord, ");\n">>)>>
        replicate == IF broadcast.channels
                     THEN <<"  second_val.y = second_val.x;\n",
                            "  second_val.z = second_val.x;\n",
                            "  second_val.w = second_val.x;\n">>
                     ELSE <<>>
    IN  read \o GetTwoInputCode(op_type, "in_out_value", "second_val")
          \o replicate

\* the read, the replication and the binary statements of both two-input
\* constructors
TwoInputCode(op_type, broadcast) ==
    LET x_coord == IF broadcast.width THEN "0" ELSE "X_COORD"
        y_coord == IF broadcast.height THEN "0" ELSE "Y_COORD"
        s_coord == IF broadcast.channels THEN "0" ELSE "S_COORD"
        read == <<StrCat(<<"FLT4 second_val = args.second_tensor.Read(",
                           x_coord, ", ", y_coord, ", ", s_coord, ");\n">>)>>
        replicate == IF broadcast.channels
                     THEN <<"  second_val.y = second_val.x;\n",
                            "  second_val.z = second_val.x;\n",
                            "  second_val.w = second_val.x;\n">>
                     ELSE <<>>
    IN  read \o replicate
          \o GetTwoInputCode(op_type, "in_out_value", "second_val")

\* definition.src_tensors[1]: the second descriptor, or, when the vector is
\* shorter, whatever an access past its end produces
Crash == Desc("crash")

SrcTensors1(definition) ==
    IF Len(definition.src_tensors) >= 2
    THEN {definition.src_tensors[2]}
    ELSE GarbageDescs \cup {Crash}

\* the reference constructor, given what src_tensors[1] read
ElementwiseTwoInputRef(definition, op_type, broadcast, src_tensor1) ==
    LET src_desc == IF definition.batch
                    THEN [src_tensor1 EXCEPT !.batched = TRUE]
                    ELSE src_tensor1
    IN  [None EXCEPT
           !.variant = "two",
           !.op_type = op_type,
           !.broadcast = broadcast,
           !.args = AddObjectRef(<<>>, "second_tensor", src_desc),
           !.code = TwoInputCode(op_type, broadcast)]

\* the constant-tensor constructor
ElementwiseTwoInputConst(definition, op_type, broadcast, constant_tensor) ==
    LET descriptor == Desc("const")
    IN  [None EXCEPT
           !.variant = "two",
           !.op_type = op_type,
           !.broadcast = broadcast,
           !.args = AddObject(<<>>, "second_tensor", constant_tensor,
                              descriptor),
           !.code = TwoInputCode(op_type, broadcast)]

---------------------------------------------------------------------------
(* Moves.  A move yields the pair of the destination and of what is left   *)
(* of the source.                                                          *)

\* ElementwiseOperation(ElementwiseOperation&&) and its operator=: the
\* fragment, the bindings and the source operands go to the destination and
\* the source is left empty
BaseMove(this, operation) ==
    [dst |-> [this EXCEPT !.code = operation.code, !.args = operation.args,
                          !.src = operation.src],
     src |-> [operation EXCEPT !.code = <<>>, !.args = <<>>, !.src = <<>>]]

ElementwiseOneInputMoveCtor(operation) ==
    LET base == BaseMove([None EXCEPT !.variant = "one"], operation)
    IN  [dst |-> [base.dst EXCEPT !.op_type = operation.op_type],
         src |-> base.src]

ElementwiseOneInputMoveAssign(this, operation) ==
    LET swapped == [dst |-> [this EXCEPT !.op_type = operation.op_type],
                    src |-> [operation EXCEPT !.op_type = this.op_type]]
    IN  BaseMove(swapped.dst, swapped.src)

ElementwiseOneRuntimeOneScalarMoveCtor(operation) ==
    LET base == BaseMove([None EXCEPT !.variant = "scalar"], operation)
    IN  [dst |-> [base.dst EXCEPT !.link_index = operation.link_index,
                                  !.op_type = operation.op_type],
         src |-> base.src]

ElementwiseOneRuntimeOneScalarMoveAssign(this, operation) ==
    BaseMove([this EXCEPT !.link_index = operation.link_index,
                          !.op_type = operation.op_type],
             operation)

ElementwiseTwoInputMoveCtor(operation) ==
    LET base == BaseMove([None EXCEPT !.variant = "two"], operation)
    IN  [dst |-> [base.dst EXCEPT !.link_index = operation.link_index,
                                  !.op_type = operation.op_type,
                                  !.broadcast = operation.broadcast],
         src |-> base.src]

\* operator= without the assignment of broadcast_
ElementwiseTwoInputMoveAssign_KeepsBroadcast(this, operation) ==
    BaseMove([this EXCEPT !.link_index = operation.link_index,
                          !.op_type = operation.op_type],
             operation)

ElementwiseTwoInputMoveAssign(this, operation) ==
    BaseMove([this EXCEPT !.link_index = operation.link_index,
                          !.op_type = operation.op_type,
                          !.broadcast = operation.broadcast],
             operation)

---------------------------------------------------------------------------
(* State.                                                                  *)
(*   ops       what each slot holds                                        *)
(*   device    the device tensors: the next identity and the live ones     *)
(*   linkArgs  the Arguments object handed to SetArgs: name -> handle      *)
(*   last      the last call: its name, inputs and returned status         *)

Slots == 1..NumSlots

Handles == 1..NumHandles

\* a null source operand, and a name no reference is bound to
NullHandle == 0

Unbound == -1

Postfixes == {"_link1", "_link2"}

TensorNames == {StrCat(<<"second_tensor", p>>) : p \in Postfixes}

NoLast ==
    [call |-> "none", status |-> "ok", slot |-> 0, from |-> 0,
     def |-> NoDef, op |-> "", bc |-> NoBroadcast, shape |-> <<0, 0, 0, 0>>,
     scalar |-> 0, flag |-> FALSE, postfix |-> "", tensor |-> 0,
     steps |-> <<>>, host |-> <<>>]

\* no call has read past the end of a vector and brought the process down
Running == last.status # "crashed"

Init ==
    /\ ops = [s \in Slots |-> None]
    /\ device = [next |-> 1, live |-> {}]
    /\ linkArgs = [n \in TensorNames |-> Unbound]
    /\ last = NoLast

---------------------------------------------------------------------------
(* Factories and constructors called directly.                             *)

CreateElementwiseOneInput(d, definition, op_type) ==
    /\ Running
    /\ ops[d].variant = "none"
    /\ ops' = [ops EXCEPT ![d] = ElementwiseOneInput(definition, op_type)]
    /\ last' = [NoLast EXCEPT !.call = "CreateElementwiseOneInput",
                              !.slot = d, !.def = definition, !.op = op_type]
    /\ UNCHANGED <<device, linkArgs>>

CreateElementwiseOneRuntimeOneScalar(d, is_power_vr, definition, op_type, scalar_parameter) ==
    LET scalar_precision == IF is_power_vr THEN "F32"
                            ELSE definition.precision
    IN  /\ Running
        /\ ops[d].variant = "none"
        /\ ops' = [ops EXCEPT ![d] =
                     ElementwiseOneRuntimeOneScalar(definition, op_type,
                                                    scalar_parameter,
                                                    scalar_precision)]
        /\ last' = [NoLast EXCEPT
                      !.call = "CreateElementwiseOneRuntimeOneScalar",
                      !.slot = d, !.def = definition, !.op = op_type,
                      !.scalar = scalar_parameter, !.flag = is_power_vr]
        /\ UNCHANGED <<device, linkArgs>>

\* ElementwiseTwoInput(definition, op_type, broadcast) run in slot d on behalf
\* of `call`
ConstructTwoInputRef(d, call, definition, op_type, broadcast, shape) ==
    /\ Running
    /\ ops[d].variant = "none"
    /\ \E src_tensor1 \in SrcTensors1(definition) :
         /\ ops' = IF src_tensor1 = Crash THEN ops
                   ELSE [ops EXCEPT ![d] =
                           ElementwiseTwoInputRef(definition, op_type,
                                                  broadcast, src_tensor1)]
         /\ last' = [NoLast EXCEPT
                       !.call = call, !.slot = d, !.def = definition,
                       !.op = op_type, !.bc = broadcast, !.shape = shape,
                       !.status = IF src_tensor1 = Crash THEN "crashed"
                                  ELSE "ok"]
    /\ UNCHANGED <<device, linkArgs>>

NewElementwiseTwoInput(d, definition, op_type, broadcast) ==
    ConstructTwoInputRef(d, "ElementwiseTwoInput", definition, op_type,
                         broadcast, <<0, 0, 0, 0>>)

\* CreateElementwiseTwoInput(definition, op_type, shape)
CreateElementwiseTwoInputShape(d, definition, op_type, shape) ==
    LET broadcast == [width |-> shape[3] = 1, height |-> shape[2] = 1,
                      channels |-> shape[4] = 1]
    IN  ConstructTwoInputRef(d, "CreateElementwiseTwoInputShape", definition,
                             op_type, broadcast, shape)

\* CreateElementwiseTwoInput(definition, op_type)
CreateElementwiseTwoInputNoShape(d, definition, op_type) ==
    LET broadcast == [width |-> FALSE, height |-> FALSE, channels |-> FALSE]
    IN  ConstructTwoInputRef(d, "CreateElementwiseTwoInputNoShape",
                             definition, op_type, broadcast, <<0, 0, 0, 0>>)

\* ElementwiseTwoInput(definition, op_type, broadcast, constant_tensor), the
\* caller handing over a device tensor of the given shape
NewElementwiseTwoInputConst(d, definition, op_type, broadcast, shape) ==
    LET constant_tensor == [id |-> device.next, shape |-> shape]
    IN  /\ Running
        /\ ops[d].variant = "none"
        /\ device.next <= MaxTensors
        /\ device' = [next |-> device.next + 1,
                      live |-> device.live \cup {device.next}]
        /\ ops' = [ops EXCEPT ![d] =
                     ElementwiseTwoInputConst(definition, op_type, broadcast,
                                              constant_tensor)]
        /\ last' = [NoLast EXCEPT
                      !.call = "ElementwiseTwoInputConst", !.slot = d,
                      !.def = definition, !.op = op_type, !.bc = broadcast,
                      !.shape = shape, !.tensor = device.next]
        /\ UNCHANGED linkArgs

\* the factories assigning *result before the upload's status is looked at
CreateConstant_AssignsFirst(d, call, definition, op_type, host, shape, broadcast, alloc_ok, write_ok) ==
    LET gpu_tensor == [id |-> device.next, shape |-> shape]
        moved == ElementwiseTwoInputMoveAssign(
                   ops[d],
                   ElementwiseTwoInputConst(definition, op_type, broadcast,
                                            gpu_tensor))
        status == IF ~alloc_ok THEN "alloc_error"
                  ELSE IF ~write_ok THEN "write_error"
                  ELSE "ok"
        steps == IF ~alloc_ok THEN <<"CreateTensor">>
                 ELSE IF ~write_ok THEN <<"CreateTensor", "WriteData">>
                 ELSE <<"CreateTensor", "WriteData", "assign">>
    IN  /\ Running
        /\ ops[d].variant = "two"
        /\ device.next <= MaxTensors
        /\ IF alloc_ok
           THEN /\ ops' = [ops EXCEPT ![d] = moved.dst]
                /\ device' =
                     [next |-> device.next + 1,
                      live |-> (device.live \ OwnedTensors(ops[d].args))
                                 \cup {device.next}]
           ELSE UNCHANGED <<ops, device>>
        /\ last' = [NoLast EXCEPT
                      !.call = call, !.slot = d, !.def = definition,
                      !.op = op_type, !.shape = shape, !.status = status,
                      !.steps = steps, !.host = host,
                      !.tensor = IF status = "ok" THEN device.next ELSE 0]
        /\ UNCHANGED linkArgs

\* the body shared by the two constant-tensor overloads of
\* CreateElementwiseTwoInput: allocate, upload, derive the broadcast, assign
CreateConstant(d, call, definition, op_type, host, shape, broadcast, alloc_ok, write_ok) ==
    LET gpu_tensor == [id |-> device.next, shape |-> shape]
        moved == ElementwiseTwoInputMoveAssign(
                   ops[d],
                   ElementwiseTwoInputConst(definition, op_type, broadcast,
                                            gpu_tensor))
        status == IF ~alloc_ok THEN "alloc_error"
                  ELSE IF ~write_ok THEN "write_error"
                  ELSE "ok"
        steps == IF ~alloc_ok THEN <<"CreateTensor">>
                 ELSE IF ~write_ok THEN <<"CreateTensor", "WriteData">>
                 ELSE <<"CreateTensor", "WriteData", "assign">>
    IN  /\ Running
        /\ ops[d].variant = "two"
        /\ device.next <= MaxTensors
        /\ IF status = "ok"
           THEN /\ ops' = [ops EXCEPT ![d] = moved.dst]
                /\ device' =
                     [next |-> device.next + 1,
                      live |-> (device.live \ OwnedTensors(ops[d].args))
                                 \cup {device.next}]
           ELSE UNCHANGED <<ops, device>>
        /\ last' = [NoLast EXCEPT
                      !.call = call, !.slot = d, !.def = definition,
                      !.op = op_type, !.shape = shape, !.status = status,
                      !.steps = steps, !.host = host,
                      !.tensor = IF status = "ok" THEN device.next ELSE 0]
        /\ UNCHANGED linkArgs

\* CreateElementwiseTwoInput(creation_context, definition, op_type,
\*                           Tensor<Linear>, result)
CreateElementwiseTwoInputLinear(d, definition, op_type, v, alloc_ok, write_ok) ==
    LET shape == <<1, 1, 1, v>>
        broadcast == [width |-> TRUE, height |-> TRUE,
                      channels |-> shape[4] = 1]
    IN  CreateConstant(d, "CreateElementwiseTwoInputLinear", definition,
                       op_type, <<v>>, shape, broadcast, alloc_ok, write_ok)

\* the HWC overload with the width and height tests exchanged
CreateElementwiseTwoInputHWC_Swapped(d, definition, op_type, h, w, c, alloc_ok, write_ok) ==
    LET shape == <<1, h, w, c>>
        broadcast == [width |-> shape[2] = 1, height |-> shape[3] = 1,
                      channels |-> shape[4] = 1]
    IN  CreateConstant(d, "CreateElementwiseTwoInputHWC", definition,
                       op_type, <<h, w, c>>, shape, broadcast, alloc_ok,
                       write_ok)

\* CreateElementwiseTwoInput(creation_context, definition, op_type,
\*                           Tensor<HWC>, result)
CreateElementwiseTwoInputHWC(d, definition, op_type, h, w, c, alloc_ok, write_ok) ==
    LET shape == <<1, h, w, c>>
        broadcast == [width |-> shape[3] = 1, height |-> shape[2] = 1,
                      channels |-> shape[4] = 1]
    IN  CreateConstant(d, "CreateElementwiseTwoInputHWC", definition,
                       op_type, <<h, w, c>>, shape, broadcast, alloc_ok,
                       write_ok)

---------------------------------------------------------------------------
(* Move construction and move assignment.                                  *)

\* a move constructor building slot d from slot s
MoveConstruct(d, s, variant, call, moved) ==
    /\ Running
    /\ d # s
    /\ ops[s].variant = variant
    /\ ops[d].variant = "none"
    /\ ops' = [ops EXCEPT ![d] = moved.dst, ![s] = moved.src]
    /\ last' = [NoLast EXCEPT !.call = call, !.slot = d, !.from = s]
    /\ UNCHANGED <<device, linkArgs>>

\* operator=(T&&) of slot d from slot s, with its test this != &operation
MoveAssign(d, s, variant, call, moved) ==
    /\ Running
    /\ ops[s].variant = variant
    /\ ops[d].variant = variant
    /\ IF d # s
       THEN /\ ops' = [ops EXCEPT ![d] = moved.dst, ![s] = moved.src]
            /\ device' = [device EXCEPT
                            !.live = @ \ OwnedTensors(ops[d].args)]
       ELSE UNCHANGED <<ops, device>>
    /\ last' = [NoLast EXCEPT !.call = call, !.slot = d, !.from = s]
    /\ UNCHANGED linkArgs

OneInputMoveConstruct(d, s) ==
    MoveConstruct(d, s, "one", "MoveConstruct",
                  ElementwiseOneInputMoveCtor(ops[s]))

OneInputMoveAssign(d, s) ==
    MoveAssign(d, s, "one", "MoveAssign",
               ElementwiseOneInputMoveAssign(ops[d], ops[s]))

OneRuntimeOneScalarMoveConstruct(d, s) ==
    MoveConstruct(d, s, "scalar", "MoveConstruct",
                  ElementwiseOneRuntimeOneScalarMoveCtor(ops[s]))

OneRuntimeOneScalarMoveAssign(d, s) ==
    MoveAssign(d, s, "scalar", "MoveAssign",
               ElementwiseOneRuntimeOneScalarMoveAssign(ops[d], ops[s]))

TwoInputMoveConstruct(d, s) ==
    MoveConstruct(d, s, "two", "MoveConstruct",
                  ElementwiseTwoInputMoveCtor(ops[s]))

TwoInputMoveAssign(d, s) ==
    MoveAssign(d, s, "two", "MoveAssign",
               ElementwiseTwoInputMoveAssign(ops[d], ops[s]))

---------------------------------------------------------------------------
(* What the embedding framework does to an instance.                       *)

\* SetLinkIndex(index) of the scalar and two-input variants
SetLinkIndex(s, index) ==
    /\ Running
    /\ ops[s].variant \in {"scalar", "two"}
    /\ ops' = [ops EXCEPT ![s].link_index = index]
    /\ last' = [NoLast EXCEPT !.call = "SetLinkIndex", !.slot = s]
    /\ UNCHANGED <<device, linkArgs>>

\* SetSrc(ptr, index): the list of source operands grows to hold the index
SetSrc(s, index, ptr) ==
    LET src == ops[s].src
        n == IF index + 1 > Len(src) THEN index + 1 ELSE Len(src)
    IN  /\ Running
        /\ ops[s].variant # "none"
        /\ ops' = [ops EXCEPT ![s].src =
                     [i \in 1..n |-> IF i = index + 1 THEN ptr
                                     ELSE IF i <= Len(src) THEN src[i]
                                     ELSE NullHandle]]
        /\ last' = [NoLast EXCEPT !.call = "SetSrc", !.slot = s]
        /\ UNCHANGED <<device, linkArgs>>

\* SetArgs testing for at least two source operands
SetArgs_AtLeastTwo(s, unique_postfix, bind_ok) ==
    LET tensor_name == StrCat(<<"second_tensor", unique_postfix>>)
        src == ops[s].src
        called == Len(src) >= 2
    IN  /\ Running
        /\ ops[s].variant = "two"
        /\ linkArgs' = IF called /\ bind_ok
                       THEN [linkArgs EXCEPT ![tensor_name] = src[2]]
                       ELSE linkArgs
        /\ last' = [NoLast EXCEPT
                      !.call = "SetArgs", !.slot = s,
                      !.postfix = unique_postfix, !.flag = bind_ok,
                      !.steps = IF called THEN <<"SetObjectRef">> ELSE <<>>,
                      !.status = IF called /\ ~bind_ok THEN "bind_error"
                                 ELSE "ok"]
        /\ UNCHANGED <<ops, device>>

\* SetArgs binding the primary operand, src_[0]
SetArgs_BindsFirst(s, unique_postfix, bind_ok) ==
    LET tensor_name == StrCat(<<"second_tensor", unique_postfix>>)
        src == ops[s].src
        called == Len(src) = 2
    IN  /\ Running
        /\ ops[s].variant = "two"
        /\ linkArgs' = IF called /\ bind_ok
                       THEN [linkArgs EXCEPT ![tensor_name] = src[1]]
                       ELSE linkArgs
        /\ last' = [NoLast EXCEPT
                      !.call = "SetArgs", !.slot = s,
                      !.postfix = unique_postfix, !.flag = bind_ok,
                      !.steps = IF called THEN <<"SetObjectRef">> ELSE <<>>,
                      !.status = IF called /\ ~bind_ok THEN "bind_error"
                                 ELSE "ok"]
        /\ UNCHANGED <<ops, device>>

\* ElementwiseTwoInput::SetArgs(unique_postfix, args); bind_ok is the answer
\* args->SetObjectRef gives when it is called
SetArgs(s, unique_postfix, bind_ok) ==
    LET tensor_name == StrCat(<<"second_tensor", unique_postfix>>)
        src == ops[s].src
        called == Len(src) = 2
    IN  /\ Running
        /\ ops[s].variant = "two"
        /\ linkArgs' = IF called /\ bind_ok
                       THEN [linkArgs EXCEPT ![tensor_name] = src[2]]
                       ELSE linkArgs
        /\ last' = [NoLast EXCEPT
                      !.call = "SetArgs", !.slot = s,
                      !.postfix = unique_postfix, !.flag = bind_ok,
                      !.steps = IF called THEN <<"SetObjectRef">> ELSE <<>>,
                      !.status = IF called /\ ~bind_ok THEN "bind_error"
                                 ELSE "ok"]
        /\ UNCHANGED <<ops, device>>

---------------------------------------------------------------------------
(* Spec: the life of the objects.  Instances of the three variants are     *)
(* created in the slots, given link indexes, and moved into fresh slots    *)
(* and over each other.                                                    *)

LifeDef ==
    [precision |-> "F16", src_tensors |-> <<Desc("src0"), Desc("src1")>>,
     batch |-> TRUE]

LifeUnary == {"SIGMOID", "TANH"}

Next ==
    \/ \E d \in Slots, op_type \in LifeUnary :
         CreateElementwiseOneInput(d, LifeDef, op_type)
    \/ \E d \in Slots :
         CreateElementwiseOneRuntimeOneScalar(d, FALSE, LifeDef, "ADD", 4097)
    \/ \E d \in Slots :
         CreateElementwiseTwoInputNoShape(d, LifeDef, "MUL")
    \/ \E d \in Slots :
         NewElementwiseTwoInputConst(d, LifeDef, "SQUARED_DIFF",
                                     [width |-> TRUE, height |-> FALSE,
                                      channels |-> TRUE],
                                     <<1, 3, 1, 1>>)
    \/ \E d \in Slots, s \in Slots : OneInputMoveConstruct(d, s)
    \/ \E d \in Slots, s \in Slots : OneInputMoveAssign(d, s)
    \/ \E d \in Slots, s \in Slots : OneRuntimeOneScalarMoveConstruct(d, s)
    \/ \E d \in Slots, s \in Slots : OneRuntimeOneScalarMoveAssign(d, s)
    \/ \E d \in Slots, s \in Slots : TwoInputMoveConstruct(d, s)
    \/ \E d \in Slots, s \in Slots : TwoInputMoveAssign(d, s)
    \/ \E s \in Slots, index \in LinkIndexes : SetLinkIndex(s, index)

Spec == Init /\ [][Next]_vars

---------------------------------------------------------------------------
(* SpecCreate: every construction path over its whole input domain.  A     *)
(* construction reads nothing but its inputs and, for the constant-tensor  *)
(* factories, overwrites *result, so each behaviour makes one call: into   *)
(* the empty slot 1, or onto a two-input instance already there.           *)

Shapes == {<<1, h, w, c>> : h \in Dims, w \in Dims, c \in Dims}

InitTarget ==
    ElementwiseTwoInputRef(
      [precision |-> "F32", src_tensors |-> <<Desc("src0"), Desc("src1")>>,
       batch |-> FALSE],
      "SUB", NoBroadcast, Desc("src1"))

InitCreate ==
    /\ ops \in {[s \in Slots |-> None],
                [s \in Slots |-> IF s = 1 THEN InitTarget ELSE None]}
    /\ device = [next |-> 1, live |-> {}]
    /\ linkArgs = [n \in TensorNames |-> Unbound]
    /\ last = NoLast

FirstCall == last.call = "none"

NextCreate ==
    \/ FirstCall /\ \E definition \in Definitions, op_type \in OperationType :
         CreateElementwiseOneInput(1, definition, op_type)
    \/ FirstCall /\ \E is_power_vr \in BOOLEAN, definition \in Definitions,
          op_type \in OperationType, scalar_parameter \in ScalarValues :
         CreateElementwiseOneRuntimeOneScalar(
                        1, is_power_vr, definition, op_type, scalar_parameter)
    \/ FirstCall /\ \E definition \in Definitions, op_type \in OperationType,
          broadcast \in BroadcastSettings :
         NewElementwiseTwoInput(1, definition, op_type,
                                             broadcast)
    \/ FirstCall /\ \E definition \in Definitions, op_type \in OperationType,
          shape \in Shapes :
         CreateElementwiseTwoInputShape(1, definition, op_type,
                                                     shape)
    \/ FirstCall /\ \E definition \in Definitions, op_type \in OperationType :
         CreateElementwiseTwoInputNoShape(1, definition, op_type)
    \/ FirstCall /\ \E definition \in Definitions, op_type \in OperationType,
          broadcast \in BroadcastSettings, shape \in Shapes :
         NewElementwiseTwoInputConst(1, definition, op_type,
                                                  broadcast, shape)
    \/ FirstCall /\ \E definition \in Definitions, op_type \in OperationType,
          v \in Dims, alloc_ok \in BOOLEAN, write_ok \in BOOLEAN :
         CreateElementwiseTwoInputLinear(
                        1, definition, op_type, v, alloc_ok, write_ok)
    \/ FirstCall /\ \E definition \in Definitions, op_type \in OperationType,
          h \in Dims, w \in Dims, c \in Dims, alloc_ok \in BOOLEAN,
          write_ok \in BOOLEAN :
         CreateElementwiseTwoInputHWC(
                        1, definition, op_type, h, w, c, alloc_ok, write_ok)

SpecCreate == InitCreate /\ [][NextCreate]_vars

---------------------------------------------------------------------------
(* SpecConst: the constant-tensor factories, with every outcome of the     *)
(* allocation and of the upload, overwriting the instance of slot 1.       *)

NextConst ==
    \/ CreateElementwiseTwoInputNoShape(1, LifeDef, "MUL")
    \/ \E op_type \in {"SQUARED_DIFF", "CONCAT"}, v \in Dims,
          alloc_ok \in BOOLEAN, write_ok \in BOOLEAN :
         CreateElementwiseTwoInputLinear(1, LifeDef, op_type, v, alloc_ok,
                                         write_ok)
    \/ \E op_type \in {"POW"}, h \in Dims, w \in Dims, c \in Dims,
          alloc_ok \in BOOLEAN, write_ok \in BOOLEAN :
         CreateElementwiseTwoInputHWC(1, LifeDef, op_type, h, w, c, alloc_ok,
                                      write_ok)
    \/ \E index \in LinkIndexes : SetLinkIndex(1, index)

SpecConst == Init /\ [][NextConst]_vars

---------------------------------------------------------------------------
(* SpecArgs: one two-input instance, of either kind, whose source operands *)
(* the framework sets and whose SetArgs it calls.                          *)

NextArgs ==
    \/ \E definition \in {LifeDef} :
         CreateElementwiseTwoInputNoShape(1, definition, "ADD")
    \/ \E definition \in {LifeDef} :
         NewElementwiseTwoInputConst(1, definition, "ADD", NoBroadcast,
                                     <<1, MaxDim, MaxDim, MaxDim>>)
    \/ \E index \in 0..MaxSrcIndex, ptr \in Handles \cup {NullHandle} :
         SetSrc(1, index, ptr)
    \/ \E unique_postfix \in Postfixes, bind_ok \in BOOLEAN :
         SetArgs(1, unique_postfix, bind_ok)

SpecArgs == Init /\ [][NextArgs]_vars

---------------------------------------------------------------------------
(* Properties.                                                             *)

Sentinel == "Unknown operation type;\n"

Lines(code) == {code[i] : i \in 1..Len(code)}

ReplicationLines ==
    <<"  second_val.y = second_val.x;\n", "  second_val.z = second_val.x;\n",
      "  second_val.w = second_val.x;\n">>

\* the read of the secondary operand a BroadcastSettings calls for
ExpectedRead(bc) ==
    StrCat(<<"FLT4 second_val = args.second_tensor.Read(",
             IF bc.width THEN "0" ELSE "X_COORD", ", ",
             IF bc.height THEN "0" ELSE "Y_COORD", ", ",
             IF bc.channels THEN "0" ELSE "S_COORD", ");\n">>)

RefCalls == {"ElementwiseTwoInput", "CreateElementwiseTwoInputShape",
             "CreateElementwiseTwoInputNoShape"}

ConstCalls == {"CreateElementwiseTwoInputLinear",
               "CreateElementwiseTwoInputHWC"}

\* the calls that leave a two-input instance in the slot when they return OK
TwoInputCalls == RefCalls \cup ConstCalls \cup {"ElementwiseTwoInputConst"}

Made == last.status = "ok" /\ last.slot \in Slots

IsReference(op) ==
    /\ op.variant = "two"
    /\ \E i \in 1..Len(op.args) : op.args[i].kind = "object_ref"

\* C1 (as claimed): the scalar binding of CreateElementwiseOneRuntimeOneScalar
\* is a float when the device is PowerVR, whatever definition.precision is,
\* and otherwise a float under F32 and a half under the other precisions;
\* exactly one binding, named "scalar", is declared and the fragment is the
\* binary template over "in_out_value" and "args.scalar".
C1_ScalarFollowsOverride ==
    last.call = "CreateElementwiseOneRuntimeOneScalar" =>
      LET op == ops[last.slot]
      IN  /\ Len(op.args) = 1
          /\ op.args[1].name = "scalar"
          /\ op.args[1].kind =
               (IF last.flag \/ last.def.precision = "F32" THEN "float"
                ELSE "half")
          /\ op.args[1].scalar =
               (IF last.flag \/ last.def.precision = "F32" THEN last.scalar
                ELSE half(last.scalar))
          /\ op.code = IF last.op \in BinaryOps
                       THEN Substitute(TwoInputTemplate(last.op),
                                       "in_out_value", "args.scalar")
                       ELSE <<Sentinel>>

\* C2 (as claimed): SetArgs of a reference instance whose list of source
\* operands has no operand at position 1 returns a failure.
C2_UnboundReferenceFails ==
    (/\ last.call = "SetArgs"
     /\ IsReference(ops[last.slot])
     /\ Len(ops[last.slot].src) < 2) => last.status # "ok"

\* C2 (amended): SetArgs of a reference instance fails exactly when its list
\* of source operands has two entries and the bind itself fails; with no
\* operand at position 1 it returns OK without calling the binder, so the
\* declared reference stays unbound and success is reported.
C2_ReferenceFailsOnlyOnBindError ==
    (last.call = "SetArgs" /\ IsReference(ops[last.slot])) =>
      /\ last.status # "ok" <=>
           (Len(ops[last.slot].src) = 2 /\ ~last.flag)
      /\ Len(ops[last.slot].src) < 2 =>
           last.status = "ok" /\ last.steps = <<>>

C2_Witness ==
    /\ last.call = "SetArgs"
    /\ IsReference(ops[last.slot])
    /\ Len(ops[last.slot].src) = 1
    /\ last.status = "ok"
    /\ \A n \in TensorNames : linkArgs[n] = Unbound

\* C3: a SetArgs call on an instance whose list of source operands does not
\* have exactly two entries returns OK and leaves args as it was; with
\* exactly two entries it binds "second_tensor" + unique_postfix to the
\* operand at position 1 and returns OK exactly when the bind succeeds, the
\* bind's error otherwise.
C3_SetArgs ==
    [][last'.call = "SetArgs" =>
         LET src == ops[last'.slot].src
             name == StrCat(<<"second_tensor", last'.postfix>>)
         IN  IF Len(src) # 2
             THEN last'.status = "ok" /\ linkArgs' = linkArgs
                    /\ last'.steps = <<>>
             ELSE /\ last'.steps = <<"SetObjectRef">>
                  /\ last'.status = "ok" <=> last'.flag
                  /\ ~last'.flag => last'.status = "bind_error"
                  /\ last'.flag =>
                       linkArgs' = [linkArgs EXCEPT ![name] = src[2]]]_vars

C3_Witness ==
    /\ last.call = "SetArgs"
    /\ last.status = "ok"
    /\ last.postfix = "_link2"
    /\ Len(ops[last.slot].src) = 2
    /\ ops[last.slot].src[1] # ops[last.slot].src[2]
    /\ linkArgs["second_tensor_link2"] = ops[last.slot].src[2]
    /\ linkArgs["second_tensor_link1"] = Unbound

\* C4: a constant-tensor factory allocates, uploads and assigns in that
\* order: a failed allocation is returned with no upload and *result as it
\* was, a failed upload is returned with *result as it was, and OK is
\* returned only after both, *result then owning the uploaded tensor as its
\* "second_tensor" binding.
C4_ConstantFactorySteps ==
    [][last'.call \in ConstCalls =>
         LET d == last'.slot
         IN  /\ last'.status \in {"alloc_error", "write_error", "ok"}
             /\ last'.status = "alloc_error" =>
                  /\ last'.steps = <<"CreateTensor">>
                  /\ ops' = ops
                  /\ device'.live = device.live
             /\ last'.status = "write_error" =>
                  /\ last'.steps = <<"CreateTensor", "WriteData">>
                  /\ ops' = ops
                  /\ device'.live = device.live
             /\ last'.status = "ok" =>
                  /\ last'.steps = <<"CreateTensor", "WriteData", "assign">>
                  /\ last'.tensor \in device'.live \ device.live
                  /\ Len(ops'[d].args) = 1
                  /\ ops'[d].args[1].name = "second_tensor"
                  /\ ops'[d].args[1].kind = "object"
                  /\ ops'[d].args[1].tensor =
                       [id |-> last'.tensor, shape |-> last'.shape]
                  /\ ops'[d].op_type = last'.op
                  /\ \A t \in Slots \ {d} : ops'[t] = ops[t]]_vars

C4_Witness ==
    /\ last.call = "CreateElementwiseTwoInputHWC"
    /\ last.status = "write_error"
    /\ last.steps = <<"CreateTensor", "WriteData">>
    /\ OwnedTensors(ops[last.slot].args) # {}
    /\ ops[last.slot].op_type = "SQUARED_DIFF"

\* C5: the linear overload derives the shape (1,1,1,C) and the settings
\* (true, true, C = 1); the HWC overload derives (1,H,W,C) and
\* (W = 1, H = 1, C = 1); the instance keeps those settings and its fragment
\* reads at the coordinates they select.
C5_BroadcastDerivation ==
    (last.call \in ConstCalls /\ Made) =>
      LET op == ops[last.slot]
          host == last.host
          linear == last.call = "CreateElementwiseTwoInputLinear"
          shape == IF linear THEN <<1, 1, 1, host[1]>>
                   ELSE <<1, host[1], host[2], host[3]>>
          bc == IF linear
                THEN [width |-> TRUE, height |-> TRUE,
                      channels |-> host[1] = 1]
                ELSE [width |-> host[2] = 1, height |-> host[1] = 1,
                      channels |-> host[3] = 1]
      IN  /\ op.args[1].tensor.shape = shape
          /\ op.broadcast = bc
          /\ op.code[1] = ExpectedRead(bc)

C5_Witness ==
    /\ last.call = "CreateElementwiseTwoInputHWC"
    /\ Made
    /\ last.host = <<1, MaxDim, MaxDim>>
    /\ last.op = "MUL"
    /\ ops[last.slot].broadcast =
         [width |-> FALSE, height |-> TRUE, channels |-> FALSE]
    /\ ops[last.slot].code[1] =
         "FLT4 second_val = args.second_tensor.Read(X_COORD, 0, S_COORD);\n"

\* C6: in both two-input constructors, for every BroadcastSettings and every
\* binary operation, the fragment starts with one read of args.second_tensor
\* at "0" for a broadcast axis and X_COORD, Y_COORD, S_COORD otherwise; with
\* channels broadcast exactly the three replication statements follow, lane x
\* into y, z, w in that order, before the statements of the operation; with
\* channels not broadcast there is no replication statement.
C6_ReadThenReplicateThenCombine ==
    (/\ last.call \in {"ElementwiseTwoInput", "ElementwiseTwoInputConst"}
     /\ Made
     /\ last.op \in BinaryOps) =>
      LET code == ops[last.slot].code
          bc == last.bc
          k == IF bc.channels THEN 3 ELSE 0
          binary == Substitute(TwoInputTemplate(last.op), "in_out_value",
                               "second_val")
          reads == {i \in 1..Len(code) : code[i] = ExpectedRead(bc)}
          replications == {i \in 1..Len(code) :
                             code[i] \in Lines(ReplicationLines)}
      IN  /\ ops[last.slot].broadcast = bc
          /\ Len(code) = 1 + k + Len(binary)
          /\ reads = {1}
          /\ replications = 2..(1 + k)
          /\ \A i \in 1..k : code[1 + i] = ReplicationLines[i]
          /\ \A i \in 1..Len(binary) : code[1 + k + i] = binary[i]

C6_Witness ==
    /\ last.call = "ElementwiseTwoInputConst"
    /\ Made
    /\ last.op = "SQUARED_DIFF"
    /\ last.bc = [width |-> TRUE, height |-> FALSE, channels |-> TRUE]
    /\ ops[last.slot].code =
         <<"FLT4 second_val = args.second_tensor.Read(0, Y_COORD, 0);\n",
           "  second_val.y = second_val.x;\n",
           "  second_val.z = second_val.x;\n",
           "  second_val.w = second_val.x;\n",
           "in_out_value -= second_val;\n",
           "in_out_value *= in_out_value;\n">>

\* C7: a move construction or move assignment of any variant leaves in the
\* destination the source's fragment, bindings, operation type, broadcast
\* settings and link index as they were before the move; a self move
\* assignment changes nothing; and at all times every live constant tensor
\* is owned by exactly one instance.
OwnedOnce ==
    /\ \A t \in device.live :
         Cardinality({s \in Slots : t \in OwnedTensors(ops[s].args)}) = 1
    /\ \A s \in Slots : OwnedTensors(ops[s].args) \subseteq device.live

MoveTransfers ==
    last'.call \in {"MoveConstruct", "MoveAssign"} =>
      LET d == last'.slot
          s == last'.from
      IN  IF d = s
          THEN ops' = ops /\ device' = device
          ELSE /\ ops'[d].variant = ops[s].variant
               /\ ops'[d].code = ops[s].code
               /\ ops'[d].args = ops[s].args
               /\ ops'[d].op_type = ops[s].op_type
               /\ ops'[d].broadcast = ops[s].broadcast
               /\ ops'[d].link_index = ops[s].link_index
               /\ OwnedTensors(ops'[s].args) = {}

C7_MoveTransfersOnce == []OwnedOnce /\ [][MoveTransfers]_vars

C7_Witness ==
    /\ last.call = "MoveAssign"
    /\ last.slot # last.from
    /\ OwnedTensors(ops[last.slot].args) # {}
    /\ ops[last.slot].broadcast =
         [width |-> TRUE, height |-> FALSE, channels |-> TRUE]
    /\ ops[last.slot].link_index = 0
    /\ ops[last.from].args = <<>>
    /\ Cardinality(device.live) = 1

\* C8 (as claimed): every construction other than the constant-tensor one
\* completes and yields an instance, for every definition, identifier and
\* shape, a definition with fewer than two source descriptors included.
C8_ConstructionIsTotal ==
    last.call \in RefCalls \cup {"CreateElementwiseOneInput",
                                 "CreateElementwiseOneRuntimeOneScalar"} =>
      /\ last.status = "ok"
      /\ ops[last.slot].variant # "none"
      /\ \A i \in 1..Len(ops[last.slot].args) :
           ops[last.slot].args[i].desc.id # "garbage"

\* C9: an identifier outside a renderer's catalog does not fail construction
\* and renders exactly the sentinel; an identifier inside it renders no
\* sentinel.  The one-operand renderer's catalog is the 11 unary operations,
\* the two-operand renderer's the 8 binary ones.  The scalar and two-input
\* variants still declare their binding and, for the two-input ones, emit
\* the read (and replication) before the sentinel.
C9_UnknownRendersSentinel ==
    /\ last.call = "CreateElementwiseOneInput" =>
         /\ Made /\ ops[last.slot].variant = "one"
         /\ last.op \notin UnaryOps => ops[last.slot].code = <<Sentinel>>
         /\ last.op \in UnaryOps =>
              /\ Sentinel \notin Lines(ops[last.slot].code)
              /\ ops[last.slot].code # <<>>
    /\ last.call = "CreateElementwiseOneRuntimeOneScalar" =>
         /\ Made /\ ops[last.slot].variant = "scalar"
         /\ Len(ops[last.slot].args) = 1
         /\ ops[last.slot].args[1].name = "scalar"
         /\ last.op \notin BinaryOps => ops[last.slot].code = <<Sentinel>>
         /\ last.op \in BinaryOps =>
              /\ Sentinel \notin Lines(ops[last.slot].code)
              /\ ops[last.slot].code # <<>>
    /\ (last.call \in TwoInputCalls /\ Made) =>
         LET code == ops[last.slot].code
             bc == ops[last.slot].broadcast
             k == IF bc.channels THEN 3 ELSE 0
         IN  /\ ops[last.slot].variant = "two"
             /\ Len(ops[last.slot].args) = 1
             /\ ops[last.slot].args[1].name = "second_tensor"
             /\ code[1] = ExpectedRead(bc)
             /\ last.op \notin BinaryOps =>
                  /\ Len(code) = 2 + k
                  /\ code[Len(code)] = Sentinel
                  /\ \A i \in 1..k : code[1 + i] = ReplicationLines[i]
             /\ last.op \in BinaryOps =>
                  /\ Sentinel \notin Lines(code)
                  /\ Len(code) > 1 + k
    /\ (/\ last.call \in RefCalls
        /\ Len(last.def.src_tensors) >= 2) => Made
    /\ last.call = "ElementwiseTwoInputConst" => Made

C9_Witness ==
    /\ last.call = "CreateElementwiseTwoInputShape"
    /\ Made
    /\ last.op = "TANH"
    /\ last.shape = <<1, MaxDim, MaxDim, 1>>
    /\ ops[last.slot].code =
         <<"FLT4 second_val = args.second_tensor.Read(X_COORD, Y_COORD, 0);\n",
           "  second_val.y = second_val.x;\n",
           "  second_val.z = second_val.x;\n",
           "  second_val.w = second_val.x;\n",
           "Unknown operation type;\n">>

\* C10: only sigmoid depends on the precision: under every precision other
\* than F32 it renders four statements, one per lane x, y, z, w in that
\* order, under F32 one vector statement; every other unary operation and
\* every binary operation renders the same fragment under all precisions.
SigmoidLaneLine(lane) ==
    StrCat(<<"in_out_value.", lane,
             " = convert_half(native_recip(1.0f + ",
             "native_exp(convert_float(-in_out_value.", lane, "))));\n">>)

C10_OnlySigmoidDependsOnPrecision ==
    /\ last.call = "CreateElementwiseOneInput" =>
         LET code == ops[last.slot].code
         IN  /\ (last.op = "SIGMOID" /\ last.def.precision # "F32") =>
                  code = <<SigmoidLaneLine("x"), SigmoidLaneLine("y"),
                           SigmoidLaneLine("z"), SigmoidLaneLine("w")>>
             /\ (last.op = "SIGMOID" /\ last.def.precision = "F32") =>
                  code = <<StrCat(<<"in_out_value = (FLT4)(1.0f) / ",
                                    "((FLT4)(1.0f) + exp(-(in_out_value)));\n">>)>>
             /\ last.op # "SIGMOID" =>
                  \A q \in Precisions :
                    code = ElementwiseOneInput(
                             [last.def EXCEPT !.precision = q], last.op).code
    /\ last.call = "CreateElementwiseOneRuntimeOneScalar" =>
         \A q \in Precisions :
           ops[last.slot].code =
             ElementwiseOneRuntimeOneScalar(
               [last.def EXCEPT !.precision = q], last.op, last.scalar,
               q).code
    /\ (last.call \in {"ElementwiseTwoInput", "ElementwiseTwoInputConst"}
        /\ Made) =>
         \A q \in Precisions :
           ops[last.slot].code =
             ElementwiseTwoInputRef(
               [last.def EXCEPT !.precision = q], last.op, last.bc,
               NoDesc).code

C10_Witness ==
    /\ last.call = "CreateElementwiseOneInput"
    /\ last.op = "SIGMOID"
    /\ last.def.precision = "F32_F16"
    /\ Len(ops[last.slot].code) = 4
    /\ ops[last.slot].code[3] = SigmoidLaneLine("z")

=============================================================================
